---- MODULE Spec2Model ----
(***************************************************************************)
(* Model of main.py: splitting one long recording into per-match clips.    *)
(*                                                                         *)
(* Times.  JSON event timestamps are integers in milliseconds.  Every      *)
(* value in seconds (a Python float) is represented by the integer number  *)
(* of 1/10000 s it holds, so that command-line offsets finer than one      *)
(* millisecond exist in the model.  The text produced by the format        *)
(* "{x:.3f}" is represented by the integer number of thousandths it        *)
(* prints.  The offsets are chosen so that no formatted value lies exactly *)
(* half-way between two thousandths.                                       *)
(*                                                                         *)
(* Records.  A match record is a function from the keys it contains to     *)
(* their values, so "key in m" is  key \in DOMAIN m.                       *)
(* None and the absence of --range are the empty tuple; a present value v  *)
(* of an optional is <<v>>.                                                *)
(***************************************************************************)
EXTENDS Integers, Sequences, FiniteSets, TLC

VARIABLES args, fs, data, pc, matches, filtered_matches, ref_time, loop_matches,
          i, calls, log, exit_code, out_isdir

vars == <<args, fs, data, pc, matches, filtered_matches, ref_time, loop_matches,
          i, calls, log, exit_code, out_isdir>>

(* ---------------------------- bounds ----------------------------------- *)
MaxLen == 2

(* ---------------------------- input domains ---------------------------- *)
None == <<>>

Numbers == {1, 2}
Names == {"Q1"}
StartStamps == {1000, 6000}
EndStamps == {5000}
Offsets == {0, 4}
StartOffsets == {0, -10000}
EndOffsets == {0, 1}
ReturnCodes == {0, 1}

Opt(key, vals) == {<<>>} \cup {key :> v : v \in vals}

MatchRecords ==
  {n @@ nm @@ s @@ e : n \in Opt("number", Numbers), nm \in Opt("name", Names),
                       s \in Opt("start", StartStamps), e \in Opt("end", EndStamps)}

MatchLists == UNION {[1..k -> MatchRecords] : k \in 0..MaxLen}

JsonDocs == {<<>>} \cup {"matches" :> ms : ms \in MatchLists}

Ranges == {None} \cup {r \in Numbers \X Numbers : r[1] <= r[2]}

\* --range is varied with the offsets at zero, the offsets without --range
ArgSets ==
  [range : Ranges, offset : {0}, startOffset : {0},
   endOffset : {0}, start : {"start"}, end : {"end"}, out : {"out"}]
  \cup
  [range : {None}, offset : Offsets, startOffset : StartOffsets,
   endOffset : EndOffsets, start : {"start"}, end : {"end"}, out : {"out"}]

(* ---------------------------- pure functions --------------------------- *)
RECURSIVE filter_matches_exclusive(_, _)
filter_matches_exclusive(ms, range_vals) ==
  IF range_vals = None THEN ms
  ELSE IF ms = <<>> THEN <<>>
  ELSE LET m == Head(ms)
           rest == filter_matches_exclusive(Tail(ms), range_vals)
       IN IF "number" \in DOMAIN m /\ range_vals[1] <= m["number"]
                                   /\ m["number"] < range_vals[2]
          THEN <<m>> \o rest
          ELSE rest

RECURSIVE filter_matches(_, _)
filter_matches(ms, range_vals) ==
  IF range_vals = None THEN ms
  ELSE IF ms = <<>> THEN <<>>
  ELSE LET m == Head(ms)
           rest == filter_matches(Tail(ms), range_vals)
       IN IF "number" \in DOMAIN m /\ range_vals[1] <= m["number"]
                                   /\ m["number"] <= range_vals[2]
          THEN <<m>> \o rest
          ELSE rest

NumberKey_missing_last(m) == IF "number" \in DOMAIN m THEN m["number"] ELSE 1000000

NumberKey(m) == IF "number" \in DOMAIN m THEN m["number"] ELSE 0

RECURSIVE Insert(_, _)
Insert(m, s) ==
  IF s = <<>> THEN <<m>>
  ELSE IF NumberKey(m) < NumberKey(Head(s)) THEN <<m>> \o s
  ELSE <<Head(s)>> \o Insert(m, Tail(s))

sorted_unsorted(ms) == ms

RECURSIVE sorted(_)
sorted(ms) ==
  IF ms = <<>> THEN <<>>
  ELSE Insert(ms[Len(ms)], sorted(SubSeq(ms, 1, Len(ms) - 1)))

SecondsOfMs(ms) == ms * 10

RECURSIVE FirstWith(_, _)
FirstWith(s, start_event) ==
  IF s = <<>> THEN None
  ELSE IF start_event \in DOMAIN Head(s)
       THEN <<SecondsOfMs(Head(s)[start_event])>>
       ELSE FirstWith(Tail(s), start_event)

find_reference_time(ms, start_event) == FirstWith(sorted(ms), start_event)

Fmt3(x) == (x + 5) \div 10

match_name_number_first(m) ==
  IF "number" \in DOMAIN m THEN "Match_" \o ToString(m["number"])
  ELSE IF "name" \in DOMAIN m THEN m["name"]
  ELSE "Match_unknown"

match_name(m) ==
  IF "name" \in DOMAIN m THEN m["name"]
  ELSE IF "number" \in DOMAIN m THEN "Match_" \o ToString(m["number"])
  ELSE "Match_unknown"

output_file(out, m) == out \o "/" \o "full-match-" \o match_name(m) \o ".mkv"

video_start_time_unadjusted(m) ==
  (SecondsOfMs(m[args.start]) - ref_time[1]) + args.offset

video_start_time(m) ==
  (SecondsOfMs(m[args.start]) - ref_time[1]) + args.offset + args.startOffset

video_end_time(m) ==
  (SecondsOfMs(m[args.end]) - ref_time[1]) + args.offset + args.endOffset

duration(m) == video_end_time(m) - video_start_time(m)

InvalidDuration_negative_only(d) == d < 0

InvalidDuration(d) == d <= 0

(* ---------------------------- state machine ---------------------------- *)
Init ==
  /\ args \in ArgSets
  /\ fs = <<>>
  /\ data = None
  /\ pc = "check_json"
  /\ matches = <<>>
  /\ filtered_matches = <<>>
  /\ ref_time = None
  /\ loop_matches = <<>>
  /\ i = 1
  /\ calls = <<>>
  /\ log = <<>>
  /\ exit_code = None
  /\ out_isdir \in BOOLEAN

Msg(stream, kind, name) == [stream |-> stream, kind |-> kind, name |-> name]

Exit(code) == /\ pc' = "exited"
              /\ exit_code' = <<code>>

ExitCodeFor_no_start_ok(reason) ==
  IF reason \in {"no_matches_found", "no_start_event"} THEN 0 ELSE 1

ExitCodeFor(reason) == IF reason = "no_matches_found" THEN 0 ELSE 1

Fail(reason) == /\ log' = Append(log, Msg("stderr", reason, ""))
                /\ Exit(ExitCodeFor(reason))

CheckJson ==
  /\ pc = "check_json"
  /\ \E isfile \in BOOLEAN :
       /\ fs' = fs @@ ("json" :> isfile)
       /\ IF ~isfile
          THEN Fail("json_not_found")
          ELSE /\ pc' = "check_video"
               /\ UNCHANGED <<log, exit_code>>
  /\ UNCHANGED <<args, data, matches, filtered_matches, ref_time, loop_matches, i, calls, out_isdir>>

CheckVideo ==
  /\ pc = "check_video"
  /\ \E isfile \in BOOLEAN :
       /\ fs' = fs @@ ("video" :> isfile)
       /\ IF ~isfile
          THEN Fail("video_not_found")
          ELSE /\ pc' = "makedirs"
               /\ UNCHANGED <<log, exit_code>>
  /\ UNCHANGED <<args, data, matches, filtered_matches, ref_time, loop_matches, i, calls, out_isdir>>

MakeDirs ==
  /\ pc = "makedirs"
  /\ out_isdir' = TRUE
  /\ pc' = "load"
  /\ UNCHANGED <<args, fs, data, matches, filtered_matches, ref_time, loop_matches, i, calls, log,
                 exit_code>>

LoadJson ==
  /\ pc = "load"
  /\ \E doc \in JsonDocs :
       /\ data' = <<doc>>
       /\ IF "matches" \notin DOMAIN doc
          THEN /\ Fail("no_matches_key")
               /\ UNCHANGED matches
          ELSE /\ matches' = doc["matches"]
               /\ pc' = "filter"
               /\ UNCHANGED <<log, exit_code>>
  /\ UNCHANGED <<args, fs, filtered_matches, ref_time, loop_matches, i, calls, out_isdir>>

Filter ==
  /\ pc = "filter"
  /\ filtered_matches' = filter_matches(matches, args.range)
  /\ IF filtered_matches' = <<>>
     THEN Fail("no_matches_found")
     ELSE /\ pc' = "find_ref"
          /\ UNCHANGED <<log, exit_code>>
  /\ UNCHANGED <<args, fs, data, matches, ref_time, loop_matches, i, calls,
                 out_isdir>>

FindRef ==
  /\ pc = "find_ref"
  /\ ref_time' = find_reference_time(filtered_matches, args.start)
  /\ IF ref_time' = None
     THEN /\ Fail("no_start_event")
          /\ UNCHANGED loop_matches
     ELSE /\ log' = Append(log, Msg("stdout", "reference_time", ""))
          /\ loop_matches' = sorted(filtered_matches)
          /\ pc' = "loop"
          /\ UNCHANGED exit_code
  /\ UNCHANGED <<args, fs, data, matches, filtered_matches, i, calls, out_isdir>>

run_ffmpeg(m, start_time, dur, out_file) ==
  /\ calls' = Append(calls, [match |-> m, pos |-> i,
                             start_time |-> start_time, duration |-> dur,
                             ss |-> Fmt3(start_time), t |-> Fmt3(dur),
                             output_file |-> out_file, returncode |-> None])
  /\ pc' = "ffmpeg"

ContinueMissing_break(k, n) == n + 1

ContinueMissing(k, n) == k + 1

ContinueInvalid(k, n) == k + 1

LoopStep ==
  /\ pc = "loop"
  /\ i <= Len(loop_matches)
  /\ LET match == loop_matches[i]
         name == match_name(match)
         n == Len(loop_matches)
     IN IF args.start \notin DOMAIN match
        THEN /\ log' = Append(log, Msg("stdout", "missing_start", name))
             /\ i' = ContinueMissing(i, n)
             /\ UNCHANGED <<pc, calls>>
        ELSE IF args.end \notin DOMAIN match
        THEN /\ log' = Append(log, Msg("stdout", "missing_end", name))
             /\ i' = ContinueMissing(i, n)
             /\ UNCHANGED <<pc, calls>>
        ELSE IF InvalidDuration(duration(match))
        THEN /\ log' = Append(log, Msg("stderr", "invalid_duration", name))
             /\ i' = ContinueInvalid(i, n)
             /\ UNCHANGED <<pc, calls>>
        ELSE /\ log' = Append(Append(log, Msg("stdout", "processing", name)),
                              Msg("stdout", "running", name))
             /\ run_ffmpeg(match, video_start_time(match), duration(match),
                           output_file(args.out, match))
             /\ UNCHANGED i
  /\ UNCHANGED <<args, fs, data, matches, filtered_matches, ref_time, loop_matches, exit_code,
                 out_isdir>>

AfterFfmpeg_abort(returncode) == IF returncode # 0 THEN "exited" ELSE "loop"

AfterFfmpeg(returncode) == "loop"

FfmpegExit ==
  /\ pc = "ffmpeg"
  /\ \E returncode \in ReturnCodes :
       /\ calls' = [calls EXCEPT ![Len(calls)].returncode = <<returncode>>]
       /\ log' = IF returncode # 0
                 THEN Append(log, Msg("stderr", "ffmpeg_error",
                                      calls[Len(calls)].output_file))
                 ELSE log
       /\ pc' = AfterFfmpeg(returncode)
  /\ i' = i + 1
  /\ UNCHANGED <<args, fs, data, matches, filtered_matches, ref_time, loop_matches, exit_code,
                 out_isdir>>

LoopEnd ==
  /\ pc = "loop"
  /\ i > Len(loop_matches)
  /\ Exit(0)
  /\ UNCHANGED <<args, fs, data, matches, filtered_matches, ref_time, loop_matches, i, calls, log,
                 out_isdir>>

Next ==
  \/ CheckJson
  \/ CheckVideo
  \/ MakeDirs
  \/ LoadJson
  \/ Filter
  \/ FindRef
  \/ LoopStep
  \/ FfmpegExit
  \/ LoopEnd

Spec == Init /\ [][Next]_vars

(* ---------------------------- progress predicates ---------------------- *)
JsonMissing == "json" \in DOMAIN fs /\ ~fs["json"]

VideoMissing == "video" \in DOMAIN fs /\ ~fs["video"]

MatchesKeyAbsent == data # None /\ "matches" \notin DOMAIN data[1]

FilterRan ==
  \/ pc \in {"find_ref", "loop", "ffmpeg"}
  \/ pc = "exited" /\ data # None /\ "matches" \in DOMAIN data[1]

FindRefRan ==
  \/ pc \in {"loop", "ffmpeg"}
  \/ pc = "exited" /\ FilterRan /\ filtered_matches # <<>>

WithStart == {k \in 1..Len(filtered_matches) : "start" \in DOMAIN filtered_matches[k]}

Logged(kind) == {j \in 1..Len(log) : log[j].kind = kind}

(* ---------------------------- C1 --------------------------------------- *)
NumOrZero(m) == IF "number" \in DOMAIN m THEN m["number"] ELSE 0

LowestWithStart ==
  {k \in WithStart : \A j \in WithStart :
       \/ NumOrZero(filtered_matches[k]) < NumOrZero(filtered_matches[j])
       \/ NumOrZero(filtered_matches[k]) = NumOrZero(filtered_matches[j]) /\ k <= j}

NumberedWithStart == {k \in WithStart : "number" \in DOMAIN filtered_matches[k]}

LowestNumberedWithStart ==
  {k \in NumberedWithStart : \A j \in NumberedWithStart :
       filtered_matches[k]["number"] <= filtered_matches[j]["number"]}

InRange(m) ==
  /\ "number" \in DOMAIN m
  /\ args.range[1] <= m["number"]
  /\ m["number"] <= args.range[2]

\* C2: after filtering with a range [lo, hi] the filtered list is exactly the
\* input records having a `number` with lo <= number <= hi, in input order;
\* with no range it is the input list unchanged.
C2_FilterMatches ==
  FilterRan =>
    IF args.range = None
    THEN filtered_matches = matches
    ELSE filtered_matches = SelectSeq(matches, InRange)

C2_Witness ==
  /\ FilterRan
  /\ args.range # None
  /\ args.range[1] < args.range[2]
  /\ Len(matches) = 2
  /\ Len(filtered_matches) = 2
  /\ filtered_matches[1]["number"] = args.range[2]
  /\ filtered_matches[2]["number"] = args.range[1]

(* ---------------------------- C3 --------------------------------------- *)
NoStartInFiltered == FilterRan /\ WithStart = {}

FatalInput ==
  \/ JsonMissing
  \/ VideoMissing
  \/ MatchesKeyAbsent
  \/ NoStartInFiltered /\ filtered_matches # <<>>

Ordered == loop_matches

LoopRan == ref_time # None

\* positions of the ordered list whose iteration has completed
Handled == {k \in 1..Len(Ordered) : k < i}

\* positions whose iteration has at least reached the extraction
Reached == {k \in 1..Len(Ordered) : k < i \/ (k = i /\ pc = "ffmpeg")}

HasBothKeys(m) == "start" \in DOMAIN m /\ "end" \in DOMAIN m

\* seconds are held in units of 1/10000 s: a timestamp of ms milliseconds is ms * 10
ExpectedStart(m) == (m["start"] * 10 - ref_time[1]) + args.offset + args.startOffset

ExpectedEnd(m) == (m["end"] * 10 - ref_time[1]) + args.offset + args.endOffset

ExpectedDuration(m) == ExpectedEnd(m) - ExpectedStart(m)

Survives(m) == HasBothKeys(m) /\ ExpectedDuration(m) > 0

CallsAt(k) == {j \in 1..Len(calls) : calls[j].pos = k}

Failed == {j \in 1..Len(calls) : calls[j].returncode # None /\ calls[j].returncode # <<0>>}

(* ---------------------------- C4 --------------------------------------- *)
\* C4: each non-zero exit of the media tool is reported once for its clip;
\* whatever the exit codes of the earlier clips, every surviving match the
\* loop has reached is extracted exactly once with the arguments computed
\* from the input alone, the loop runs to the last match, and the run that
\* entered the loop ends with exit code 0.
C4_FailureDoesNotAbort ==
  LoopRan =>
    /\ Cardinality(Logged("ffmpeg_error")) = Cardinality(Failed)
    /\ \A j \in Failed :
         \E l \in Logged("ffmpeg_error") : log[l].name = calls[j].output_file
    /\ \A k \in Reached : Survives(Ordered[k]) =>
         /\ Cardinality(CallsAt(k)) = 1
         /\ \A j \in CallsAt(k) :
              /\ calls[j].match = Ordered[k]
              /\ calls[j].start_time = ExpectedStart(Ordered[k])
              /\ calls[j].duration = ExpectedDuration(Ordered[k])
    /\ pc = "exited" => (i = Len(Ordered) + 1 /\ exit_code = <<0>>)

C4_Witness ==
  /\ pc = "exited"
  /\ exit_code = <<0>>
  /\ Len(calls) = 2
  /\ calls[1].returncode = <<1>>
  /\ calls[2].returncode = <<0>>

(* ---------------------------- C5 --------------------------------------- *)
NonPositive == {k \in 1..Len(Ordered) :
                  HasBothKeys(Ordered[k]) /\ ExpectedDuration(Ordered[k]) <= 0}

\* C5: a match whose computed duration (video_end - video_start) is <= 0 is
\* never extracted, a skip message is emitted for each such match handled,
\* the matches after it are still handled, and every extraction invoked has a
\* strictly positive computed duration.
C5_NonPositiveDurationSkipped ==
  LoopRan =>
    /\ \A k \in NonPositive : CallsAt(k) = {}
    /\ Cardinality(Logged("invalid_duration")) = Cardinality(NonPositive \cap Handled)
    /\ \A j \in 1..Len(calls) :
         /\ calls[j].duration > 0
         /\ calls[j].duration = ExpectedDuration(calls[j].match)
    /\ pc = "exited" =>
         \A k \in 1..Len(Ordered) : Survives(Ordered[k]) => CallsAt(k) # {}

C5_Witness ==
  /\ pc = "exited"
  /\ Len(Ordered) = 2
  /\ 1 \in NonPositive
  /\ ExpectedDuration(Ordered[1]) = 0
  /\ Len(calls) = 1
  /\ calls[1].pos = 2

(* ---------------------------- C6 --------------------------------------- *)
MissingKey == {k \in 1..Len(Ordered) : ~HasBothKeys(Ordered[k])}

\* C6: a filtered match lacking the start-event key or the end-event key is
\* never extracted (no output file is produced for it), one skip message is
\* printed for each such match handled, and the matches after it are still
\* handled.
C6_MissingKeySkipped ==
  LoopRan =>
    /\ \A k \in MissingKey : CallsAt(k) = {}
    /\ Cardinality(Logged("missing_start")) + Cardinality(Logged("missing_end"))
         = Cardinality(MissingKey \cap Handled)
    /\ \A l \in Logged("missing_start") \cup Logged("missing_end") :
         \E k \in MissingKey \cap Handled : log[l].name = match_name(Ordered[k])
    /\ pc = "exited" =>
         /\ Handled = 1..Len(Ordered)
         /\ \A k \in 1..Len(Ordered) : Survives(Ordered[k]) => CallsAt(k) # {}

C6_Witness ==
  /\ pc = "exited"
  /\ Len(Ordered) = 2
  /\ "start" \in DOMAIN Ordered[1]
  /\ "end" \notin DOMAIN Ordered[1]
  /\ Logged("missing_end") # {}
  /\ Len(calls) = 1
  /\ calls[1].pos = 2

(* ---------------------------- C7 --------------------------------------- *)
\* The -ss and -t texts carry thousandths of a second; a value of x units of
\* 1/10000 s is printed exactly iff it is ten times the printed thousandths.

\* C7 as stated: for every extraction invoked the seek-start passed to the
\* tool equals (event_start - reference_time) + global_offset +
\* start_adjustment and the duration passed equals
\* ((event_end - reference_time) + global_offset + end_adjustment) minus that
\* seek-start.
C7_AsStated ==
  \A j \in 1..Len(calls) :
    /\ calls[j].ss * 10 = ExpectedStart(calls[j].match)
    /\ calls[j].t * 10 = ExpectedDuration(calls[j].match)

IsNearestThousandth(txt, x) == (txt * 10 - x) \in -4..4

Scenario ==
  /\ filtered_matches = <<[number |-> 1, start |-> 1000, end |-> 5000]>>
  /\ args.offset = 0
  /\ args.startOffset = 0
  /\ args.endOffset = 0

\* C7 (amended): for every extraction invoked the seek-start and the duration
\* computed are (event_start - reference_time) + global_offset +
\* start_adjustment and ((event_end - reference_time) + global_offset +
\* end_adjustment) minus that seek-start, event times converted from ms to s,
\* and the values passed to the tool are these two rounded to the nearest
\* thousandth of a second; matches = [{number:1, start:1000, end:5000}] with
\* offset 0 and zero adjustments gives reference 1.0 s, video_start 0.0 s and
\* duration 4.0 s.
C7_ClipTimes ==
  /\ \A j \in 1..Len(calls) :
       /\ calls[j].start_time = ExpectedStart(calls[j].match)
       /\ calls[j].duration = ExpectedDuration(calls[j].match)
       /\ IsNearestThousandth(calls[j].ss, ExpectedStart(calls[j].match))
       /\ IsNearestThousandth(calls[j].t, ExpectedDuration(calls[j].match))
  /\ (Scenario /\ LoopRan) => ref_time = <<10000>>
  /\ (Scenario /\ calls # <<>>) =>
       /\ calls[1].start_time = 0
       /\ calls[1].duration = 40000
       /\ calls[1].ss = 0
       /\ calls[1].t = 4000

C7_Witness ==
  /\ Len(calls) = 2
  /\ args.offset = 4
  /\ args.startOffset = -10000
  /\ args.endOffset = 1
  /\ calls[2].start_time = 40004
  /\ calls[2].ss = 4000
  /\ calls[2].duration = 1
  /\ calls[2].t = 0

(* ---------------------------- C8 --------------------------------------- *)
PathFor(x) == args.out \o "/full-match-" \o x \o ".mkv"

\* C8 as stated: the output path of every extracted match is the output
\* directory joined with full-match-<X>.<ext>, X being the match's `name` when
\* it has one and its `number` otherwise.
C8_AsStated ==
  \A j \in 1..Len(calls) :
    LET m == calls[j].match
    IN /\ "name" \in DOMAIN m => calls[j].output_file = PathFor(m["name"])
       /\ ("name" \notin DOMAIN m /\ "number" \in DOMAIN m)
            => calls[j].output_file = PathFor(ToString(m["number"]))

\* C8 (amended): the output path of every extracted match is the output
\* directory joined with full-match-<X>.mkv, X being the match's `name` when
\* it has one, otherwise "Match_" followed by its `number`, and
\* "Match_unknown" when it has neither.
C8_OutputPath ==
  \A j \in 1..Len(calls) :
    LET m == calls[j].match
    IN /\ "name" \in DOMAIN m => calls[j].output_file = PathFor(m["name"])
       /\ ("name" \notin DOMAIN m /\ "number" \in DOMAIN m)
            => calls[j].output_file = PathFor("Match_" \o ToString(m["number"]))
       /\ ("name" \notin DOMAIN m /\ "number" \notin DOMAIN m)
            => calls[j].output_file = PathFor("Match_unknown")

C8_Witness ==
  /\ Len(calls) = 2
  /\ calls[1].output_file = "out/full-match-Match_1.mkv"
  /\ calls[2].output_file = "out/full-match-Q1.mkv"

(* ---------------------------- C9 --------------------------------------- *)
\* C9: any two distinct extractions of a run write to different output paths,
\* so no clip of the run overwrites another clip of the same run.
C9_DistinctOutputs ==
  \A j, k \in 1..Len(calls) : j # k => calls[j].output_file # calls[k].output_file

(* ---------------------------- C10 -------------------------------------- *)
\* C10: extractions run one at a time in ascending order of `number`: an
\* extraction begins only after the process of every earlier one has exited,
\* and when a match is extracted every surviving match of the filtered set
\* with a lower `number` has been extracted before it.
C10_SequentialAscending ==
  /\ \A j \in 1..Len(calls) :
       (calls[j].returncode = None) => (j = Len(calls) /\ pc = "ffmpeg")
  /\ \A j, k \in 1..Len(calls) :
       (j < k /\ "number" \in DOMAIN calls[j].match /\ "number" \in DOMAIN calls[k].match)
         => calls[j].match["number"] <= calls[k].match["number"]
  /\ \A j \in 1..Len(calls) : \A q \in 1..Len(filtered_matches) :
       LET m == filtered_matches[q]
       IN ( /\ "number" \in DOMAIN calls[j].match
            /\ "number" \in DOMAIN m
            /\ Survives(m)
            /\ m["number"] < calls[j].match["number"] )
          => \E j2 \in 1..(j - 1) : calls[j2].match = m

C10_Witness ==
  /\ pc = "ffmpeg"
  /\ Len(calls) = 2
  /\ Len(filtered_matches) = 2
  /\ "number" \in DOMAIN filtered_matches[1]
  /\ "number" \in DOMAIN filtered_matches[2]
  /\ filtered_matches[1]["number"] = 2
  /\ filtered_matches[2]["number"] = 1
  /\ calls[1].match = filtered_matches[2]
  /\ calls[1].returncode # None
  /\ calls[2].match = filtered_matches[1]
====
